---- MODULE Spec2Model ----
(***************************************************************************)
(* Model of the three site plugins of MangaBot:                            *)
(*   Plugin A = plugins/atsumaru.py    (AtsumaruClient, JSON API)          *)
(*   Plugin B = plugins/mangafire.py   (MangaFireClient, AJAX + HTML)      *)
(*   Plugin C = plugins/mangakatana.py (MangaKatanaClient, HTML + script)  *)
(*                                                                         *)
(* Strings are sequences of tokens; a token is an indivisible piece of     *)
(* text ("https://", "atsu.moe", "/", ":" ...).  Python values that may be *)
(* None, a str or an int are records [k, s].  A call either returns a      *)
(* value or raises: its outcome is a record [raised, val].                 *)
(***************************************************************************)
EXTENDS Integers, Sequences, FiniteSets, TLC

VARIABLES
    last,       \* the last completed one-shot call: [plugin, op, in, out]
    a_url,      \* Plugin A iter_chapters: the manga_url argument
    a_pc,       \* Plugin A iter_chapters: "idle", "loop", "done", "raised"
    a_page,     \* Plugin A iter_chapters: the local variable page
    a_hist,     \* Plugin A iter_chapters: the responses fetched, in order
    a_log       \* Plugin A iter_chapters: events <<"fetch", p>> / <<"yield", item>>

vars == <<last, a_url, a_pc, a_page, a_hist, a_log>>

---------------------------------------------------------------------------
\* Bounds of the model.

\* upstream API pages 0..MaxPage may carry chapters; later pages are empty
MaxPage == 2

\* longest list of entries in an upstream payload
MaxItems == 2

\* longest chapter list a one-shot site returns
MaxChapters == 43

\* the page size of the one-shot plugins (the literal 20)
PageSize == 20

\* image sides 1..MaxSide pixels, besides the large ones
MaxSide == 12

\* scramble offsets -MaxOffset..MaxOffset
MaxOffset == 7

\* most string literals in a script array
MaxLits == 3

\* largest page number asked of a one-shot listing
MaxAskPage == 3

---------------------------------------------------------------------------
\* Strings as token sequences.

StartsWith(s, p) == Len(p) <= Len(s) /\ SubSeq(s, 1, Len(p)) = p

EndsWith(s, p) == Len(p) <= Len(s) /\ SubSeq(s, Len(s) - Len(p) + 1, Len(s)) = p

\* Python: p in s
Contains(s, p) == \E i \in 0..(Len(s) - Len(p)) : SubSeq(s, i + 1, i + Len(p)) = p

\* Python: s.split(sep)[-1] for a one-token separator
LastSegment(s, sep) ==
    LET idx == {i \in 1..Len(s) : s[i] = sep}
        cut == IF idx = {} THEN 0 ELSE CHOOSE i \in idx : \A j \in idx : j <= i
    IN  SubSeq(s, cut + 1, Len(s))

\* Python values: None, a str, an int
PyNone == [k |-> "none", s |-> <<>>]
PyStr(s) == [k |-> "str", s |-> s]
PyInt(tok) == [k |-> "int", s |-> <<tok>>]

\* Python truthiness of such a value
Truthy(v) ==
    \/ v.k = "str" /\ v.s # <<>>
    \/ v.k = "int" /\ v.s # <<"0">>

\* Python f-string formatting of such a value: f"{v}"
Fmt(v) == IF v.k = "none" THEN <<"None">> ELSE v.s

Returned(v) == [raised |-> FALSE, val |-> v]
Raised == [raised |-> TRUE, val |-> <<>>]

---------------------------------------------------------------------------
\* Plugin A (atsumaru.py)

A_base_url == <<"https://", "atsu.moe">>

\* contains_url: url.startswith("https://atsu.moe/")
A_contains_url(url) == StartsWith(url, <<"https://", "atsu.moe", "/">>)

\* label of one chapter entry: bare title, or "Ch. {number} - {title}"
A_display_title(title, number) ==
    IF Truthy(number)
    THEN <<"Ch. ">> \o Fmt(number) \o <<" - ">> \o Fmt(title)
    ELSE Fmt(title)

\* f"{self.base_url}/read/{slug}/{ch_id}"
A_chapter_url(slug, ch_id) ==
    A_base_url \o <<"/", "read", "/">> \o slug \o <<"/">> \o Fmt(ch_id)

\* a key of a JSON object that is missing
JAbsent == [k |-> "absent", s |-> <<>>]

\* Python: d.get(key, default)
DictGet(v, default) == IF v.k = "absent" THEN default ELSE v

\* one upstream chapter entry shaped into a MangaChapter [name, url]:
\* ch.get("id"), ch.get("title"), ch.get("number", "")
A_shape_chapter(slug, ch) ==
    [name |-> A_display_title(DictGet(ch.title, PyNone), DictGet(ch.number, PyStr(<<>>))),
     url  |-> A_chapter_url(slug, DictGet(ch.id, PyNone))]

\* upstream chapter entries: a JSON object with optional id, title, number,
\* or a JSON value that is no object
ChObj(id, title, number) == [obj |-> TRUE, id |-> id, title |-> title, number |-> number]
ChNotObj == [obj |-> FALSE, id |-> JAbsent, title |-> JAbsent, number |-> JAbsent]

RawTitles ==
    { <<>>, <<"x">>, <<"x", ":">>, <<"x", ":", ":">>, <<"Chapter">>,
      <<"Chapter", " ", ":">>, <<"Chapter", " ", ":", " ", "x">> }

TitleVals == {JAbsent, PyNone} \cup {PyStr(t) : t \in RawTitles}

NumberVals == {JAbsent, PyNone, PyStr(<<>>), PyStr(<<"5">>), PyInt("0"), PyInt("5")}

IdVals == {JAbsent, PyStr(<<"c1">>)}

A_ChEntries ==
    {ChNotObj} \cup {ChObj(i, t, n) : i \in IdVals, t \in TitleVals, n \in NumberVals}

numbered == ChObj(PyStr(<<"c1">>), PyStr(<<"x">>), PyStr(<<"5">>))
unnumbered == ChObj(PyStr(<<"c2">>), PyStr(<<"y">>), JAbsent)

\* the value under the key "chapters": missing, null, or a list
NoList == [k |-> "absent", v |-> <<>>]
NullList == [k |-> "null", v |-> <<>>]
JList(l) == [k |-> "list", v |-> l]

\* the value under the key "pages": missing, not a number, or an integer
NoPages == [k |-> "absent", n |-> 0]
BadPages == [k |-> "bad", n |-> 0]
IntPages(n) == [k |-> "int", n |-> n]

\* what get_url plus json.loads give for the chapters endpoint; the kind
\* "transport" is a fetch that failed: get_url raises
RespFail == [k |-> "transport", chapters |-> NoList, pages |-> NoPages]
RespNotJson == [k |-> "notjson", chapters |-> NoList, pages |-> NoPages]
RespNonObj == [k |-> "nonobj", chapters |-> NoList, pages |-> NoPages]
RespObj(c, p) == [k |-> "obj", chapters |-> c, pages |-> p]

PagesVals == {NoPages, BadPages} \cup {IntPages(n) : n \in 0..(MaxPage + 2)}

\* chapter lists the lazy listing is driven with
A_IterLists ==
    { <<>>, <<numbered>>, <<numbered, unnumbered>>, <<numbered, ChNotObj>>, <<ChNotObj>>,
      <<ChObj(PyStr(<<"c3">>), PyStr(<<"x", ":">>), PyStr(<<>>))>> }

A_IterResp ==
    {RespFail, RespNotJson, RespNonObj}
    \cup {RespObj(c, p) : c \in {NoList, NullList} \cup {JList(l) : l \in A_IterLists},
                          p \in PagesVals}

\* data.get("chapters", []) as a Python sequence; null is None
HasNoChapters(r) == r.k = "obj" /\ (r.chapters.k # "list" \/ r.chapters.v = <<>>)

\* the entries of a list before the first one that is no object
RECURSIVE ObjPrefix(_)
ObjPrefix(l) ==
    IF l = <<>> \/ ~Head(l).obj THEN <<>> ELSE <<Head(l)>> \o ObjPrefix(Tail(l))

ShapeAll(slug, l) == [i \in 1..Len(l) |-> A_shape_chapter(slug, l[i])]

\* A_iter_empty_break with the test for an empty page left out
A_iter_empty_break_mut(chapters) == FALSE

\* the "if not chapters_data: break" of iter_chapters (None and [] are falsy)
A_iter_empty_break(chapters) == chapters.k = "null" \/ chapters.v = <<>>

\* A_iter_last_page with the page counter compared as if it were 1-based
A_iter_last_page_mut(page, total_pages) == page >= total_pages

\* the "if page + 1 >= total_pages: break" of iter_chapters, line 147
A_iter_last_page(page, total_pages) == page + 1 >= total_pages

\* one pass of the while loop of iter_chapters for the response r to the
\* request of page: the items yielded and how the pass ends.  A failing
\* get_url is outside the try and propagates; everything else that fails
\* is caught by "except Exception: break".
A_iter_body(slug, page, r) ==
    IF r.k = "transport" THEN [yield |-> <<>>, next |-> "raise"]
    ELSE IF r.k # "obj" THEN [yield |-> <<>>, next |-> "break"]
    ELSE IF A_iter_empty_break(r.chapters) THEN [yield |-> <<>>, next |-> "break"]
    ELSE IF r.chapters.k = "null" THEN [yield |-> <<>>, next |-> "break"]
    ELSE LET chapters_data == r.chapters.v
             good == ObjPrefix(chapters_data)
             total_pages == IF r.pages.k = "absent" THEN 0 ELSE r.pages.n
         IN  IF Len(good) < Len(chapters_data)
                  THEN [yield |-> ShapeAll(slug, good), next |-> "break"]
             ELSE IF r.pages.k = "bad"
                  THEN [yield |-> ShapeAll(slug, good), next |-> "break"]
             ELSE IF A_iter_last_page(page, total_pages)
                  THEN [yield |-> ShapeAll(slug, good), next |-> "break"]
             ELSE [yield |-> ShapeAll(slug, good), next |-> "continue"]

\* Python: s.removeprefix(p)
RemovePrefix(s, p) == IF StartsWith(s, p) THEN SubSeq(s, Len(p) + 1, Len(s)) ELSE s

\* all sequences over S of length lo..hi
SeqsOf(S, lo, hi) == UNION {[1..m -> S] : m \in lo..hi}

\* a JSON body as json.loads sees it: unreadable, no object, or an object
\* whose one interesting key holds lst (missing, null or a list)
JBody(k, lst) == [k |-> k, list |-> lst]
BodyFail == JBody("transport", NoList)
BodyNotJson == JBody("notjson", NoList)
BodyNonObj == JBody("nonobj", NoList)

\* ---- search

\* a search document: id, title, poster and image are optional; a poster
\* may be a string or an object {"image": path}
Doc(id, title, poster, image) ==
    [obj |-> TRUE, id |-> id, title |-> title, poster |-> poster, image |-> image]
DocNotObj == [obj |-> FALSE, id |-> JAbsent, title |-> JAbsent, poster |-> JAbsent, image |-> JAbsent]
PyDict(inner) == [k |-> "dict", s |-> inner]

PosterVals ==
    { JAbsent, PyStr(<<>>), PyStr(<<"p.jpg">>), PyStr(<<"static/", "p.jpg">>),
      PyStr(<<"/", "static/", "p.jpg">>), PyDict(<<"/", "d.jpg">>) }

A_SearchDocs ==
    {DocNotObj}
    \cup {Doc(i, t, p, JAbsent) : i \in IdVals, t \in {JAbsent, PyStr(<<"x">>)}, p \in PosterVals}
    \cup {Doc(PyStr(<<"c1">>), PyStr(<<"x">>), JAbsent, PyStr(<<"i.jpg">>))}

gooddoc == Doc(PyStr(<<"c1">>), PyStr(<<"x">>), PyStr(<<"p.jpg">>), JAbsent)

\* a search hit: no object, an object without "document", or a wrapper
Hit(kind, doc) == [kind |-> kind, doc |-> doc]

A_SearchHits ==
    {Hit("notobj", DocNotObj), Hit("nodoc", DocNotObj)} \cup {Hit("doc", d) : d \in A_SearchDocs}

A_SearchLists ==
    SeqsOf(A_SearchHits, 0, 1)
    \cup SeqsOf({Hit("doc", gooddoc), Hit("nodoc", DocNotObj)}, 2, MaxItems)

A_SearchBodies ==
    {BodyFail, BodyNotJson, BodyNonObj, JBody("obj", NoList), JBody("obj", NullList)}
    \cup {JBody("obj", JList(l)) : l \in A_SearchLists}

\* lines 61-70: the thumbnail URL of a search document
A_thumbnail(item) ==
    LET first == DictGet(item.poster, PyNone)
        picked == IF Truthy(first) \/ first.k = "dict" THEN first ELSE DictGet(item.image, PyNone)
        image_path == IF picked.k = "dict" THEN PyStr(picked.s) ELSE picked
    IN  IF Truthy(image_path)
        THEN A_base_url \o <<"/", "static/">>
                 \o RemovePrefix(RemovePrefix(Fmt(image_path), <<"/">>), <<"static/">>)
        ELSE <<>>

\* lines 57-75: one document shaped into a MangaCard [name, url, picture]
A_shape_card(item) ==
    [name    |-> DictGet(item.title, PyNone),
     url     |-> A_base_url \o <<"/", "manga", "/">> \o Fmt(DictGet(item.id, PyNone)),
     picture |-> A_thumbnail(item)]

\* search(query, page): trending feed for an empty query (its list holds the
\* documents themselves), the search index otherwise (hits wrap documents).
\* Only json.JSONDecodeError is caught.
A_search(query, page, body) ==
    IF body.k = "transport" THEN Raised
    ELSE IF body.k = "notjson" THEN Returned(<<>>)
    ELSE IF body.k = "nonobj" THEN Raised
    ELSE IF body.list.k = "null" THEN Raised
    ELSE LET hits == body.list.v
             items == [i \in 1..Len(hits) |-> hits[i].doc]
         IN  IF query # <<>> /\ \E i \in 1..Len(hits) : hits[i].kind # "doc" THEN Raised
             ELSE IF \E i \in 1..Len(items) : ~items[i].obj THEN Raised
             ELSE Returned([i \in 1..Len(items) |-> A_shape_card(items[i])])

\* ---- get_chapters

A_ChapterLists ==
    SeqsOf(A_ChEntries, 0, 1) \cup SeqsOf({numbered, unnumbered, ChNotObj}, 2, MaxItems)

A_ChapterBodies ==
    {BodyFail, BodyNotJson, BodyNonObj, JBody("obj", NoList), JBody("obj", NullList)}
    \cup {JBody("obj", JList(l)) : l \in A_ChapterLists}

\* get_chapters(manga_card, page), lines 79-116
A_get_chapters(card_url, page, body) ==
    LET slug == LastSegment(card_url, "/")
    IN  IF body.k = "transport" THEN Raised
        ELSE IF body.k = "notjson" THEN Returned(<<>>)
        ELSE IF body.k = "nonobj" THEN Raised
        ELSE IF body.list.k = "null" THEN Raised
        ELSE IF \E i \in 1..Len(body.list.v) : ~body.list.v[i].obj THEN Raised
        ELSE Returned(ShapeAll(slug, body.list.v))

\* ---- pictures_from_chapters

\* a page entry of the reader API: no object, or an object with optional image
PageEntry(obj, image) == [obj |-> obj, image |-> image]

A_PageEntries ==
    {PageEntry(FALSE, JAbsent)}
    \cup {PageEntry(TRUE, v) : v \in {JAbsent, PyNone, PyStr(<<>>), PyStr(<<"/", "static/", "1.jpg">>),
                                      PyStr(<<"/", "static/", "2.jpg">>)}}

\* the reader API body: rc is what the key "readChapter" holds
ReadBody(k, rc, lst) == [k |-> k, rc |-> rc, list |-> lst]

A_ReadBodies ==
    {ReadBody(k, "absent", NoList) : k \in {"transport", "notjson", "nonobj", "obj"}}
    \cup {ReadBody("obj", rc, NoList) : rc \in {"null", "notobj", "obj"}}
    \cup {ReadBody("obj", "obj", NullList)}
    \cup {ReadBody("obj", "obj", JList(l)) : l \in SeqsOf(A_PageEntries, 0, MaxItems)}

\* the response context: None, or the resolved URL of the chapter page
NoResponse == [k |-> "none", s |-> <<>>]
A_Responses ==
    { NoResponse, PyStr(<<"x">>),
      PyStr(A_base_url \o <<"/", "read", "/", "m1", "/", "c1">>) }

\* what lines 171-192 do once the derived API request has been answered by
\* body; TRUE in failed stands for an exception raised inside the try
A_extract_images(url_str, body) ==
    IF ~Contains(url_str, <<"/">>) THEN [failed |-> TRUE, images |-> <<>>]
    ELSE IF body.k # "obj" THEN [failed |-> TRUE, images |-> <<>>]
    ELSE IF body.rc = "absent" THEN [failed |-> FALSE, images |-> <<>>]
    ELSE IF body.rc # "obj" THEN [failed |-> TRUE, images |-> <<>>]
    ELSE IF body.list.k = "null" THEN [failed |-> TRUE, images |-> <<>>]
    ELSE LET pages == body.list.v
             kept == SelectSeq(pages, LAMBDA p : p.obj /\ Truthy(DictGet(p.image, PyNone)))
         IN  IF \E i \in 1..Len(pages) : ~pages[i].obj
             THEN [failed |-> TRUE, images |-> <<>>]
             ELSE [failed |-> FALSE,
                   images |-> [i \in 1..Len(kept) |-> A_base_url \o Fmt(kept[i].image)]]

\* A_pictures_guard without the except clause
A_pictures_guard_mut(got) == IF got.failed THEN Raised ELSE Returned(got.images)

\* the try/except of lines 170-196: every exception becomes []
A_pictures_guard(got) == IF got.failed THEN Returned(<<>>) ELSE Returned(got.images)

\* pictures_from_chapters(content, response), lines 154-196
A_pictures_from_chapters(response, body) ==
    IF response.k = "none" THEN Returned(<<>>)
    ELSE A_pictures_guard(A_extract_images(response.s, body))

\* ---- check_updated_urls

A_UpdateBodies ==
    {BodyFail, BodyNotJson, BodyNonObj, JBody("obj", NoList), JBody("obj", NullList)}
    \cup {JBody("obj", JList(l)) : l \in SeqsOf({gooddoc, DocNotObj}, 0, MaxItems)}

UpdatePair(u, n) == [updated |-> u, not_updated |-> n]

\* A_check_updated_urls with line 226 returning what line 229 returns
A_check_updated_urls_mut(last_urls, body) ==
    IF body.k = "transport" THEN Raised ELSE Returned(UpdatePair(<<>>, <<>>))

\* check_updated_urls(last_chapters), lines 201-229; last_chapters is given
\* by the URLs of its chapters
A_check_updated_urls(last_urls, body) ==
    IF body.k = "transport" THEN Raised
    ELSE IF body.k # "obj" THEN Returned(UpdatePair(<<>>, <<>>))
    ELSE IF body.list.k = "null" THEN Returned(UpdatePair(<<>>, <<>>))
    ELSE IF \E i \in 1..Len(body.list.v) : ~body.list.v[i].obj
         THEN Returned(UpdatePair(<<>>, <<>>))
    ELSE Returned(UpdatePair(<<>>, last_urls))

\* manga URLs handed to Plugin A
A_MangaUrls ==
    { A_base_url \o <<"/", "manga", "/", "m1">>, <<"m1">> }

NoItem == [name |-> <<>>, url |-> <<>>]
FetchEvent(p) == [e |-> "fetch", page |-> p, item |-> NoItem]
YieldEvent(p, it) == [e |-> "yield", page |-> p, item |-> it]

\* what the site answers for a page: pages past MaxPage carry no chapters
A_Upstream(page) ==
    IF page > MaxPage THEN {r \in A_IterResp : HasNoChapters(r)} ELSE A_IterResp

NoCall == [plugin |-> "-", op |-> "-", in |-> <<>>, out |-> Returned(<<>>)]

---------------------------------------------------------------------------
\* HTML as BeautifulSoup sees it: the elements a selector matches, in order.

\* Python: urllib.parse.urljoin(base, href) for a base without a path
UrlJoin(base, href) ==
    IF href = <<>> THEN base
    ELSE IF Head(href) \in {"https://", "http://"} THEN href
    ELSE IF Head(href) = "//" THEN <<Head(base)>> \o Tail(href)
    ELSE IF Head(href) \in {"/", "?", "#"} THEN base \o href
    ELSE base \o <<"/">> \o href

\* Python: s.strip() where " " is the whitespace token
RECURSIVE LStrip(_)
LStrip(s) == IF s # <<>> /\ Head(s) = " " THEN LStrip(Tail(s)) ELSE s

RECURSIVE RStrip(_)
RStrip(s) ==
    IF s # <<>> /\ s[Len(s)] = " " THEN RStrip(SubSeq(s, 1, Len(s) - 1)) ELSE s

Strip(s) == RStrip(LStrip(s))

\* Python: s.replace(old, new)
RECURSIVE Replace(_, _, _)
Replace(s, old, new) ==
    IF Len(s) < Len(old) THEN s
    ELSE IF StartsWith(s, old) THEN new \o Replace(SubSeq(s, Len(old) + 1, Len(s)), old, new)
    ELSE <<Head(s)>> \o Replace(Tail(s), old, new)

\* Python: s[lo:hi]
PySlice(s, lo, hi) ==
    LET n == Len(s)
        clamp(i) == IF i < 0 THEN (IF n + i < 0 THEN 0 ELSE n + i) ELSE (IF i > n THEN n ELSE i)
    IN  SubSeq(s, clamp(lo) + 1, clamp(hi))

\* a matched listing element: its link ("none": no such descendant,
\* "nohref": an <a> without href, "href"), link text, and its <img>
\* ("none", "nosrc", "src")
El(link, href, text, img) == [link |-> link, href |-> href, text |-> text, img |-> img]

\* a matched chapter row: link, data-number attribute ("" when absent), <span>
Li(link, href, number, hasspan, span) ==
    [link |-> link, href |-> href, number |-> number, hasspan |-> hasspan, span |-> span]

\* the page get_url gives: markup with its matched elements, or no page at
\* all when the fetch fails (k = "transport": get_url raises)
Page(k, items) == [k |-> k, items |-> items]
PageFail == Page("transport", <<>>)

Card(name, url, picture) == [name |-> name, url |-> url, picture |-> picture]
Chapter(name, url) == [name |-> name, url |-> url]

---------------------------------------------------------------------------
\* Plugin B (mangafire.py)

B_base_url == <<"https://", "mangafire.to">>

\* contains_url: "mangafire.to" in url
B_contains_url(url) == Contains(url, <<"mangafire.to">>)

B_Hrefs ==
    { <<>>, <<"/", "manga", "/", "t", ".", "id1">>, <<"read", "/", "x">>,
      B_base_url \o <<"/", "manga", "/", "t", ".", "id1">>,
      <<"https://", "evil.com", "/", "x">>, <<"//", "evil.com", "/", "x">>,
      <<"https://", "evil.com", "/", "?", "mangafire.to">> }

B_Els ==
    {El("none", <<>>, <<>>, "none"), El("nohref", <<>>, <<"t">>, "src")}
    \cup {El("href", h, <<" ", "t", " ">>, i) : h \in B_Hrefs, i \in {"none", "nosrc", "src"}}

goodel == El("href", <<"/", "manga", "/", "t", ".", "id1">>, <<"t">>, "src")

B_Pages ==
    {PageFail}
    \cup {Page("html", l) : l \in SeqsOf(B_Els, 0, 1)
                                  \cup SeqsOf({goodel, El("none", <<>>, <<>>, "none")}, 2, MaxItems)}

\* the elements that have a link, in order
WithLink(items) == SelectSeq(items, LAMBDA e : e.link # "none")

\* lines 137-144: one element shaped into a MangaCard
B_shape_card(e) ==
    Card(PyStr(Strip(e.text)), UrlJoin(B_base_url, e.href),
         IF e.img = "src" THEN <<"img">> ELSE <<>>)

\* search(query, page), lines 113-146: nothing is caught
B_search(query, page, content) ==
    IF content.k = "transport" THEN Raised
    ELSE LET els == WithLink(content.items)
         IN  IF \E i \in 1..Len(els) : els[i].link = "nohref" \/ els[i].img = "nosrc"
             THEN Raised
             ELSE Returned([i \in 1..Len(els) |-> B_shape_card(els[i])])

\* the AJAX envelope {status, result}: k as for a JSON body; status is 200
\* or not; result is missing, null or markup whose matched rows are items
Envelope(k, status, result, items) ==
    [k |-> k, status |-> status, result |-> result, items |-> items]

SpanTexts == {<<" ">> \o t \o <<" ">> : t \in RawTitles}

B_Rows ==
    {Li("none", <<>>, <<>>, FALSE, <<>>), Li("nohref", <<>>, <<"5">>, TRUE, <<"x">>)}
    \cup {Li("href", h, <<"5">>, TRUE, <<"x">>) : h \in B_Hrefs}
    \cup {Li("href", <<"/", "read", "/", "x">>, n, TRUE, t) : n \in {<<>>, <<"5">>}, t \in SpanTexts}
    \cup {Li("href", <<"/", "read", "/", "x">>, n, FALSE, <<>>) : n \in {<<>>, <<"5">>}}

\* a long chapter list: row i links to /read/ch<i> and is numbered i
ManyRows(n) ==
    [i \in 1..n |-> Li("href", <<"/", "read", "/", "ch" \o ToString(i)>>,
                       <<ToString(i)>>, TRUE, <<"t">>)]

B_RowLists ==
    SeqsOf(B_Rows, 0, 1)
    \cup SeqsOf({Li("href", <<"/", "read", "/", "x">>, <<"5">>, TRUE, <<"x">>),
                 Li("none", <<>>, <<>>, FALSE, <<>>),
                 Li("nohref", <<>>, <<"5">>, TRUE, <<"x">>)}, 2, MaxItems)
    \cup {ManyRows(n) : n \in (MaxChapters - 23)..MaxChapters}

B_Envelopes ==
    {Envelope(k, 200, "absent", <<>>) : k \in {"transport", "notjson", "nonobj"}}
    \cup {Envelope("obj", st, r, <<>>) : st \in {200, 404}, r \in {"absent", "null"}}
    \cup {Envelope("obj", st, "html", l) : st \in {200, 404}, l \in B_RowLists}

\* B_chapter_name without the test "if number:"
B_chapter_name_mut(number, raw_title) ==
    LET name == <<"Chapter", " ">> \o number \o <<":", " ">> \o raw_title
        cleaned == Strip(Replace(name, <<"Chapter", " ", ":">>, <<"Chapter">>))
    IN  IF EndsWith(cleaned, <<":">>) THEN SubSeq(cleaned, 1, Len(cleaned) - 1) ELSE cleaned

\* lines 189-200 of get_chapters: the label of a row
B_chapter_name(number, raw_title) ==
    LET name == IF number # <<>>
                THEN <<"Chapter", " ">> \o number \o <<":", " ">> \o raw_title
                ELSE raw_title
        cleaned == Strip(Replace(name, <<"Chapter", " ", ":">>, <<"Chapter">>))
    IN  IF EndsWith(cleaned, <<":">>) THEN SubSeq(cleaned, 1, Len(cleaned) - 1) ELSE cleaned

RawTitleOf(item) == IF item.hasspan THEN Strip(item.span) ELSE <<>>

\* lines 182-202: the chapters parsed from the rows, or a failure
B_parse_rows(items) ==
    LET rows == WithLink(items)
    IN  IF \E i \in 1..Len(rows) : rows[i].link = "nohref"
        THEN [failed |-> TRUE, chapters |-> <<>>]
        ELSE [failed |-> FALSE,
              chapters |-> [i \in 1..Len(rows) |->
                              Chapter(B_chapter_name(rows[i].number, RawTitleOf(rows[i])),
                                      UrlJoin(B_base_url, rows[i].href))]]

\* B_page_slice with the page taken as 0-based
B_page_slice_mut(chapters, page) == PySlice(chapters, page * PageSize, (page + 1) * PageSize)

\* the page of the full list that get_chapters returns, line 206
B_page_slice(chapters, page) == PySlice(chapters, (page - 1) * PageSize, page * PageSize)

\* get_chapters(manga_card, page), lines 148-210
B_get_chapters(card_url, page, env) ==
    IF env.k = "transport" THEN Raised
    ELSE IF env.k # "obj" THEN Returned(<<>>)
    ELSE IF env.status # 200 THEN Returned(<<>>)
    ELSE IF env.result = "null" THEN Returned(<<>>)
    ELSE LET parsed == B_parse_rows(env.items)
         IN  IF parsed.failed THEN Returned(<<>>)
             ELSE Returned(B_page_slice(parsed.chapters, page))

\* line 235 of iter_chapters: the label of a row
B_iter_name(number, raw_title) ==
    IF number # <<>> THEN <<"Chapter", " ">> \o number ELSE raw_title

\* the rows before the first one whose link has no href
RECURSIVE HrefPrefix(_)
HrefPrefix(rows) ==
    IF rows = <<>> \/ Head(rows).link = "nohref" THEN <<>>
    ELSE <<Head(rows)>> \o HrefPrefix(Tail(rows))

\* iter_chapters(manga_url, manga_name), lines 212-240: the chapters it
\* yields; every exception ends the iteration silently, the status is not read
B_iter_chapters(manga_url, env) ==
    IF env.k # "obj" \/ env.result = "null" THEN Returned(<<>>)
    ELSE LET rows == HrefPrefix(WithLink(env.items))
         IN  Returned([i \in 1..Len(rows) |->
                         Chapter(B_iter_name(rows[i].number, RawTitleOf(rows[i])),
                                 UrlJoin(B_base_url, rows[i].href))])

\* pictures_from_chapters(content, response), lines 242-307
B_pictures_from_chapters(content, response) == Returned(<<>>)

\* check_updated_urls(last_chapters), lines 312-337: nothing is caught
B_check_updated_urls(last_urls, content) ==
    IF content.k = "transport" THEN Raised
    ELSE LET els == WithLink(content.items)
             updates == {UrlJoin(B_base_url, els[i].href) : i \in 1..Len(els)}
         IN  IF \E i \in 1..Len(els) : els[i].link = "nohref" THEN Raised
             ELSE Returned(UpdatePair(SelectSeq(last_urls, LAMBDA u : u \in updates),
                                      SelectSeq(last_urls, LAMBDA u : u \notin updates)))

\* ---- _descramble_image, lines 26-83, on the grid of tiles

PIECE_SIZE == 200
MIN_SPLIT_COUNT == 5

Min(a, b) == IF a < b THEN a ELSE b

ceil_div(a, b) == (a + b - 1) \div b

\* piece_width / piece_height for a side of the image, lines 42-43
piece_len(side) == Min(PIECE_SIZE, ceil_div(side, MIN_SPLIT_COUNT))

\* x_max / y_max, lines 45-46
max_idx(side) == ceil_div(side, piece_len(side)) - 1

\* src_idx with the modulus taken over the number of tiles, max + 1
src_idx_mut(idx, max, offset) ==
    IF idx = max THEN idx ELSE (max - idx + offset) % (max + 1)

\* src_idx without the rule for the last index of an axis
src_idx_noedge(idx, max, offset) ==
    IF max = 0 THEN idx ELSE (max - idx + offset) % max

\* x_src_idx / y_src_idx, lines 60-63 and 67-70
src_idx(idx, max, offset) ==
    IF idx = max THEN idx ELSE (max - idx + offset) % max

Tiles(width, height) == (0..max_idx(width)) \X (0..max_idx(height))

\* the tile the destination tile t is copied from
SrcTile(t, width, height, offset) ==
    <<src_idx(t[1], max_idx(width), offset), src_idx(t[2], max_idx(height), offset)>>

\* the loops of lines 51-76: every destination tile gets the content that the
\* image img (tile -> content) has at its source tile
descramble(img, width, height, offset) ==
    [t \in Tiles(width, height) |-> img[SrcTile(t, width, height, offset)]]

\* the inverse of that mapping applied to img: the tile at s holds what img
\* has at the tiles whose source is s
scramble(img, width, height, offset) ==
    [s \in Tiles(width, height) |->
        {img[t] : t \in {u \in Tiles(width, height) : SrcTile(u, width, height, offset) = s}}]

\* an image whose tiles are all different: tile t holds t
Original(width, height) == [t \in Tiles(width, height) |-> t]

\* image sides: the small ones, and some around the 5 x 200 pixel limit
Sides == (1..MaxSide) \cup {999, 1000, 1001, 1201}

Offsets == (0 - MaxOffset)..MaxOffset

---------------------------------------------------------------------------
\* Plugin C (mangakatana.py)

C_base_url == <<"https://", "mangakatana.com">>

\* contains_url: url.startswith(self.base_url)
C_contains_url(url) == StartsWith(url, C_base_url)

C_Hrefs ==
    { <<>>, <<"/", "manga", "/", "t", ".", "id1">>,
      C_base_url \o <<"/", "manga", "/", "t", ".", "id1">>,
      <<"https://", "evil.com", "/", "x">>,
      C_base_url \o <<".", "evil.com", "/", "x">> }

C_Els ==
    {El("none", <<>>, <<>>, "none"), El("nohref", <<>>, <<"t">>, "src")}
    \cup {El("href", h, <<" ", "t", " ">>, i) : h \in C_Hrefs, i \in {"none", "nosrc", "src"}}

\* a long chapter list: row i links to <base>/c<i>
ManyEls(n) ==
    [i \in 1..n |-> El("href", C_base_url \o <<"/", "c" \o ToString(i)>>, <<"t">>, "none")]

C_Pages ==
    {PageFail}
    \cup {Page("html", l) : l \in SeqsOf(C_Els, 0, 1)
                                  \cup SeqsOf({goodel, El("none", <<>>, <<>>, "none")}, 2, MaxItems)}

C_ChapterPages ==
    C_Pages \cup {Page("html", ManyEls(n)) : n \in (MaxChapters - 23)..MaxChapters}

\* mangas_from_page, lines 19-41
C_mangas_from_page(items) ==
    LET els == WithLink(items)
    IN  IF \E i \in 1..Len(els) : els[i].link = "nohref" \/ els[i].img = "nosrc"
        THEN Raised
        ELSE Returned([i \in 1..Len(els) |->
                         Card(PyStr(Strip(els[i].text)), els[i].href,
                              IF els[i].img = "src" THEN <<"img">> ELSE <<>>)])

\* chapters_from_page, lines 43-60
C_chapters_from_page(items) ==
    LET rows == WithLink(items)
    IN  IF \E i \in 1..Len(rows) : rows[i].link = "nohref"
        THEN Raised
        ELSE Returned([i \in 1..Len(rows) |-> Chapter(Strip(rows[i].text), rows[i].href)])

\* search(query, page), lines 95-101
C_search(query, page, content) ==
    IF content.k = "transport" THEN Raised ELSE C_mangas_from_page(content.items)

\* the page of the full list that get_chapters returns, line 105
C_page_slice(chapters, page) == PySlice(chapters, (page - 1) * PageSize, page * PageSize)

\* get_chapters(manga_card, page), lines 103-105
C_get_chapters(card_url, page, content) ==
    IF content.k = "transport" THEN Raised
    ELSE LET all == C_chapters_from_page(content.items)
         IN  IF all.raised THEN Raised ELSE Returned(C_page_slice(all.val, page))

\* iter_chapters(manga_url, manga_name), lines 107-111: the chapters yielded
C_iter_chapters(manga_url, content) ==
    IF content.k = "transport" THEN Raised ELSE C_chapters_from_page(content.items)

\* check_updated_urls(last_chapters), lines 116-136: nothing is caught
C_check_updated_urls(last_urls, content) ==
    IF content.k = "transport" THEN Raised
    ELSE LET els == WithLink(content.items)
             updated_urls == {els[i].href : i \in 1..Len(els)}
         IN  IF \E i \in 1..Len(els) : els[i].link = "nohref" THEN Raised
             ELSE Returned(UpdatePair(SelectSeq(last_urls, LAMBDA u : u \in updated_urls),
                                      SelectSeq(last_urls, LAMBDA u : u \notin updated_urls)))

\* ---- pictures_from_chapters, lines 62-93, on the text of the page

\* the token of the marker: data-src followed by a quote and a comma
MARK == "data-src',"

\* the tokens made of \w characters
IsWord(tok) == tok \in {"var", "foo", "bar", "a", "b"}

\* the first index >= i of s that holds no space (Len(s) + 1 when none)
RECURSIVE SkipSpaces(_, _)
SkipSpaces(s, i) == IF i <= Len(s) /\ s[i] = " " THEN SkipSpaces(s, i + 1) ELSE i

\* the length of the run of word tokens of s that starts at i
RECURSIVE WordRun(_, _)
WordRun(s, i) == IF i <= Len(s) /\ IsWord(s[i]) THEN 1 + WordRun(s, i + 1) ELSE 0

\* the least element of a non-empty set of integers
Least(S) == CHOOSE i \in S : \A j \in S : i <= j

\* re.search(r"data-src['\"],\s*(\w+)", html_str): found, and group(1)
C_var_name_match(html_str) ==
    LET at == {i \in 1..Len(html_str) :
                 html_str[i] = MARK /\ WordRun(html_str, SkipSpaces(html_str, i + 1)) > 0}
    IN  IF at = {} THEN [found |-> FALSE, group |-> <<>>]
        ELSE LET j == SkipSpaces(html_str, Least(at) + 1)
             IN  [found |-> TRUE,
                  group |-> SubSeq(html_str, j, j + WordRun(html_str, j) - 1)]

\* re.search(f"var {var_name}=\[([^\]]*)\]", html_str): found, and group(1):
\* the text from the bracket to the first closing bracket after it
C_array_match(var_name, html_str) ==
    LET head == <<"var", " ">> \o var_name \o <<"=", "[">>
        closers(i) == {k \in (i + Len(head))..Len(html_str) : html_str[k] = "]"}
        at == {i \in 1..Len(html_str) :
                 /\ i + Len(head) - 1 <= Len(html_str)
                 /\ SubSeq(html_str, i, i + Len(head) - 1) = head
                 /\ closers(i) # {}}
    IN  IF at = {} THEN [found |-> FALSE, group |-> <<>>]
        ELSE [found |-> TRUE,
              group |-> SubSeq(html_str, Least(at) + Len(head), Least(closers(Least(at))) - 1)]

\* re.findall(r"'([^']*)'", raw_array)
RECURSIVE C_findall_quoted(_)
C_findall_quoted(raw_array) ==
    LET q1 == {i \in 1..Len(raw_array) : raw_array[i] = "'"}
    IN  IF q1 = {} THEN <<>>
        ELSE LET rest == SubSeq(raw_array, Least(q1) + 1, Len(raw_array))
                 q2 == {i \in 1..Len(rest) : rest[i] = "'"}
             IN  IF q2 = {} THEN <<>>
                 ELSE <<SubSeq(rest, 1, Least(q2) - 1)>>
                          \o C_findall_quoted(SubSeq(rest, Least(q2) + 1, Len(rest)))

\* pictures_from_chapters(content, response), lines 62-93
C_pictures_from_chapters(html_str) ==
    LET var_name_match == C_var_name_match(html_str)
        array_match == C_array_match(var_name_match.group, html_str)
    IN  IF ~var_name_match.found THEN Returned(<<>>)
        ELSE IF ~array_match.found THEN Returned(<<>>)
        ELSE Returned(C_findall_quoted(array_match.group))

\* The page texts the extraction is driven with.  A script is described by
\* its marker (absent, or naming a variable, with or without a space before
\* the name), an array assignment (absent, or "var <name>=[" with the
\* literals lits, closed by "]" or not; spaced puts a space before "="),
\* and which of the two comes first.
Script(mark, mname, mspace, decl, dname, spaced, lits, closed, declfirst) ==
    [mark |-> mark, mname |-> mname, mspace |-> mspace, decl |-> decl, dname |-> dname,
     spaced |-> spaced, lits |-> lits, closed |-> closed, declfirst |-> declfirst]

\* the contents of the string literals: a literal may hold a bracket
LitContents == {<<>>, <<"a">>, <<"b">>, <<"a", "]", "b">>}

Scripts ==
    {Script(FALSE, "foo", FALSE, d, "foo", FALSE, l, TRUE, FALSE) :
        d \in BOOLEAN, l \in SeqsOf(LitContents, 0, 1)}
    \cup {Script(TRUE, mn, ms, FALSE, "foo", FALSE, <<>>, TRUE, FALSE) :
        mn \in {"foo", "bar"}, ms \in BOOLEAN}
    \cup {Script(TRUE, mn, ms, TRUE, "foo", sp, l, c, df) :
        mn \in {"foo", "bar"}, ms \in BOOLEAN, sp \in BOOLEAN,
        l \in SeqsOf(LitContents, 0, MaxLits), c \in BOOLEAN, df \in BOOLEAN}

RECURSIVE RenderLits(_)
RenderLits(lits) ==
    IF lits = <<>> THEN <<>>
    ELSE <<"'">> \o Head(lits) \o <<"'">>
             \o (IF Len(lits) > 1 THEN <<",">> ELSE <<>>) \o RenderLits(Tail(lits))

\* the text of a script
Render(sc) ==
    LET m == IF sc.mark
             THEN <<MARK>> \o (IF sc.mspace THEN <<" ">> ELSE <<>>) \o <<sc.mname, ")", ";">>
             ELSE <<>>
        d == IF sc.decl
             THEN <<"var", " ", sc.dname>> \o (IF sc.spaced THEN <<" ">> ELSE <<>>)
                      \o <<"=", "[">> \o RenderLits(sc.lits)
                      \o (IF sc.closed THEN <<"]">> ELSE <<>>) \o <<";">>
             ELSE <<>>
    IN  IF sc.declfirst THEN d \o m ELSE m \o d

\* URLs handed to contains_url: of each site, of another host, and of
\* another host with a site's domain text in its path or query
Domains == {"atsu.moe", "mangafire.to", "mangakatana.com"}

TestUrls ==
    {<<"https://", d, "/", "manga", "/", "x">> : d \in Domains}
    \cup {<<"https://", d>> : d \in Domains}
    \cup {<<"https://", "evil.com", "/", "?", d>> : d \in Domains}
    \cup {<<"https://", "evil.com", "/", d, "/", "x">> : d \in Domains}
    \cup {<<"https://", d, ".", "evil.com", "/", "x">> : d \in Domains}
    \cup {<<"https://", "evil.com", "/", "x">>, <<>>}

B_CardUrls ==
    { B_base_url \o <<"/", "manga", "/", "t", ".", "id1">>, <<"https://", "evil.com", "/", "x">> }

C_CardUrls ==
    { C_base_url \o <<"/", "manga", "/", "t", ".", "id1">>, <<"/", "manga", "/", "t", ".", "id1">> }

---------------------------------------------------------------------------
\* The state machine.

Init ==
    /\ last = NoCall
    /\ a_pc = "idle"
    /\ a_url = <<>>
    /\ a_page = 0
    /\ a_hist = <<>>
    /\ a_log = <<>>

\* A one-shot call is made in the state after construction: the plugins keep
\* no state between calls.
CanCall == last = NoCall /\ a_pc = "idle"

iter_vars == <<a_url, a_pc, a_page, a_hist, a_log>>

\* the record of a completed call
Done(plugin, op, in, out) == [plugin |-> plugin, op |-> op, in |-> in, out |-> out]

Queries == {<<>>, <<"q">>}

\* the page argument of a call (the bot asks from page 1; 0 is the first
\* value outside the contract)
AskPages == 0..MaxAskPage

\* the URLs of previously seen chapters handed to check_updated_urls
LastUrls(base, hrefs) ==
    SeqsOf({base \o <<"/", "manga", "/", "t", ".", "id1">>, base \o <<"/", "read", "/", "x">>}
           \cup {h \in hrefs : h # <<>> /\ Head(h) = "https://"}, 0, MaxItems)

\* ---- Plugin A

A_search_call ==
    /\ CanCall
    /\ \E query \in Queries, page \in 1..2, body \in A_SearchBodies :
        last' = Done("A", "search", [query |-> query, page |-> page, body |-> body],
             A_search(query, page, body))
    /\ UNCHANGED iter_vars

A_get_chapters_call ==
    /\ CanCall
    /\ \E url \in A_MangaUrls, page \in 1..2, body \in A_ChapterBodies :
        last' = Done("A", "get_chapters", [url |-> url, page |-> page, body |-> body],
             A_get_chapters(url, page, body))
    /\ UNCHANGED iter_vars

\* iter_chapters is called: lines 119-122
A_iter_chapters_call ==
    /\ last = NoCall
    /\ a_pc # "loop"
    /\ \E u \in A_MangaUrls : a_url' = u
    /\ a_pc' = "loop"
    /\ a_page' = 0
    /\ a_hist' = <<>>
    /\ a_log' = <<>>
    /\ last' = NoCall

\* iter_chapters: one pass of the while loop, lines 123-152
A_iter_chapters_pass ==
    /\ a_pc = "loop"
    /\ a_page <= MaxPage + 1
    /\ \E r \in A_Upstream(a_page) :
         LET b == A_iter_body(LastSegment(a_url, "/"), a_page, r)
         IN  /\ a_hist' = Append(a_hist, r)
             /\ a_log' = a_log \o <<FetchEvent(a_page)>>
                               \o [i \in 1..Len(b.yield) |-> YieldEvent(a_page, b.yield[i])]
             /\ a_pc' = CASE b.next = "raise" -> "raised"
                          [] b.next = "break" -> "done"
                          [] OTHER -> "loop"
             /\ a_page' = IF b.next = "continue" THEN a_page + 1 ELSE a_page
    /\ UNCHANGED <<last, a_url>>

A_pictures_from_chapters_call ==
    /\ CanCall
    /\ \E response \in A_Responses, body \in A_ReadBodies :
        last' = Done("A", "pictures_from_chapters", [response |-> response, body |-> body],
             A_pictures_from_chapters(response, body))
    /\ UNCHANGED iter_vars

A_contains_url_call ==
    /\ CanCall
    /\ \E url \in TestUrls :
        last' = Done("A", "contains_url", [url |-> url], Returned(A_contains_url(url)))
    /\ UNCHANGED iter_vars

A_check_updated_urls_call ==
    /\ CanCall
    /\ \E urls \in LastUrls(A_base_url, {}), body \in A_UpdateBodies :
        last' = Done("A", "check_updated_urls", [urls |-> urls, body |-> body],
             A_check_updated_urls(urls, body))
    /\ UNCHANGED iter_vars

\* ---- Plugin B

B_search_call ==
    /\ CanCall
    /\ \E query \in Queries, page \in 1..2, content \in B_Pages :
        last' = Done("B", "search", [query |-> query, page |-> page, content |-> content],
             B_search(query, page, content))
    /\ UNCHANGED iter_vars

B_get_chapters_call ==
    /\ CanCall
    /\ \E url \in B_CardUrls, page \in AskPages, env \in B_Envelopes :
        last' = Done("B", "get_chapters", [url |-> url, page |-> page, env |-> env],
             B_get_chapters(url, page, env))
    /\ UNCHANGED iter_vars

B_iter_chapters_call ==
    /\ CanCall
    /\ \E url \in B_CardUrls, env \in B_Envelopes :
        last' = Done("B", "iter_chapters", [url |-> url, env |-> env], B_iter_chapters(url, env))
    /\ UNCHANGED iter_vars

B_pictures_from_chapters_call ==
    /\ CanCall
    /\ \E content \in {"html", "none"}, response \in {NoResponse, PyStr(B_base_url \o <<"/", "read", "/", "x">>)} :
        last' = Done("B", "pictures_from_chapters", [content |-> content, response |-> response],
             B_pictures_from_chapters(content, response))
    /\ UNCHANGED iter_vars

B_contains_url_call ==
    /\ CanCall
    /\ \E url \in TestUrls :
        last' = Done("B", "contains_url", [url |-> url], Returned(B_contains_url(url)))
    /\ UNCHANGED iter_vars

B_check_updated_urls_call ==
    /\ CanCall
    /\ \E urls \in LastUrls(B_base_url, B_Hrefs), content \in B_Pages :
        last' = Done("B", "check_updated_urls", [urls |-> urls, content |-> content],
             B_check_updated_urls(urls, content))
    /\ UNCHANGED iter_vars

\* _descramble_image applied to an image that the inverse mapping scrambled
B_descramble_call ==
    /\ CanCall
    /\ \E w \in Sides, h \in Sides, off \in Offsets :
        LET img == scramble(Original(w, h), w, h, off)
        IN  last' = Done("B", "descramble",
                 [width |-> w, height |-> h, offset |-> off, scrambled |-> img],
                 Returned(descramble(img, w, h, off)))
    /\ UNCHANGED iter_vars

\* ---- Plugin C

C_search_call ==
    /\ CanCall
    /\ \E query \in Queries, page \in 1..2, content \in C_Pages :
        last' = Done("C", "search", [query |-> query, page |-> page, content |-> content],
             C_search(query, page, content))
    /\ UNCHANGED iter_vars

C_get_chapters_call ==
    /\ CanCall
    /\ \E url \in C_CardUrls, page \in AskPages, content \in C_ChapterPages :
        last' = Done("C", "get_chapters", [url |-> url, page |-> page, content |-> content],
             C_get_chapters(url, page, content))
    /\ UNCHANGED iter_vars

C_iter_chapters_call ==
    /\ CanCall
    /\ \E url \in C_CardUrls, content \in C_ChapterPages :
        last' = Done("C", "iter_chapters", [url |-> url, content |-> content],
             C_iter_chapters(url, content))
    /\ UNCHANGED iter_vars

C_pictures_from_chapters_call ==
    /\ CanCall
    /\ \E sc \in Scripts :
        last' = Done("C", "pictures_from_chapters", [script |-> sc, text |-> Render(sc)],
             C_pictures_from_chapters(Render(sc)))
    /\ UNCHANGED iter_vars

C_contains_url_call ==
    /\ CanCall
    /\ \E url \in TestUrls :
        last' = Done("C", "contains_url", [url |-> url], Returned(C_contains_url(url)))
    /\ UNCHANGED iter_vars

C_check_updated_urls_call ==
    /\ CanCall
    /\ \E urls \in LastUrls(C_base_url, C_Hrefs), content \in C_Pages :
        last' = Done("C", "check_updated_urls", [urls |-> urls, content |-> content],
             C_check_updated_urls(urls, content))
    /\ UNCHANGED iter_vars

Next ==
    \/ A_search_call
    \/ A_get_chapters_call
    \/ A_iter_chapters_call
    \/ A_iter_chapters_pass
    \/ A_pictures_from_chapters_call
    \/ A_contains_url_call
    \/ A_check_updated_urls_call
    \/ B_search_call
    \/ B_get_chapters_call
    \/ B_iter_chapters_call
    \/ B_pictures_from_chapters_call
    \/ B_contains_url_call
    \/ B_check_updated_urls_call
    \/ B_descramble_call
    \/ C_search_call
    \/ C_get_chapters_call
    \/ C_iter_chapters_call
    \/ C_pictures_from_chapters_call
    \/ C_contains_url_call
    \/ C_check_updated_urls_call

Spec == Init /\ [][Next]_vars

---------------------------------------------------------------------------
\* C1: Plugin A's iter_chapters stops after finitely many fetches once a
\* fetched page has no chapters, whatever the "pages" field says: a fetched
\* page without chapters is the last page fetched and ends the iteration,
\* and no invocation fetches more pages than the site has plus one.
C1_IterTerminates ==
    /\ \A i \in 1..Len(a_hist) :
          HasNoChapters(a_hist[i]) => (i = Len(a_hist) /\ a_pc = "done")
    /\ Len(a_hist) <= MaxPage + 2
    /\ a_pc = "loop" => a_page = Len(a_hist) /\ a_page <= MaxPage + 1

\* an iteration that was told of more pages than exist and ended on the
\* first page without chapters
C1_Witness ==
    /\ a_pc = "done"
    /\ Len(a_hist) = MaxPage + 2
    /\ HasNoChapters(a_hist[Len(a_hist)])
    /\ a_hist[Len(a_hist) - 1].pages.n > MaxPage + 1

---------------------------------------------------------------------------
\* C2: in every plugin search never raises to the caller, whatever the
\* upstream body is and also when the fetch fails.
C2_SearchNeverRaises == last.op = "search" => ~last.out.raised

---------------------------------------------------------------------------
\* C3: in every plugin check_updated_urls never raises, and returns ([], [])
\* when the fetch of the recently-updated surface fails.
C3_UpdatesNeverRaise ==
    last.op = "check_updated_urls" =>
        /\ ~last.out.raised
        /\ (last.plugin = "A" /\ last.in.body.k = "transport")
               => last.out.val = UpdatePair(<<>>, <<>>)
        /\ (last.plugin # "A" /\ last.in.content.k = "transport")
               => last.out.val = UpdatePair(<<>>, <<>>)

---------------------------------------------------------------------------
\* the contains_url of a plugin
ContainsUrl(plugin, url) ==
    CASE plugin = "A" -> A_contains_url(url)
      [] plugin = "B" -> B_contains_url(url)
      [] plugin = "C" -> C_contains_url(url)

\* C4: the URL of every Card and Item that a plugin's search, get_chapters
\* or iter_chapters produces is accepted by that plugin's contains_url.
C4_ProducedUrlsAreMembers ==
    /\ (last.op \in {"search", "get_chapters", "iter_chapters"} /\ ~last.out.raised) =>
          \A i \in 1..Len(last.out.val) : ContainsUrl(last.plugin, last.out.val[i].url)
    /\ \A i \in 1..Len(a_log) :
          a_log[i].e = "yield" => A_contains_url(a_log[i].item.url)

---------------------------------------------------------------------------
\* the chapters a one-shot plugin parses from the response of a get_chapters
\* call, when it gets as far as parsing them all
ParsedAll(call) ==
    IF call.plugin = "B"
    THEN /\ call.in.env.k = "obj"
         /\ call.in.env.status = 200
         /\ call.in.env.result # "null"
         /\ ~B_parse_rows(call.in.env.items).failed
    ELSE /\ call.in.content.k = "html"
         /\ ~C_chapters_from_page(call.in.content.items).raised

FullList(call) ==
    IF call.plugin = "B" THEN B_parse_rows(call.in.env.items).chapters
    ELSE C_chapters_from_page(call.in.content.items).val

Max(a, b) == IF a > b THEN a ELSE b

\* C5: for Plugin B and Plugin C, get_chapters(card, page) with page >= 1 is
\* the run of the full parsed chapter list that starts after (page-1)*20
\* chapters and holds at most 20 of them, in source order.
C5_PageIsSlice ==
    (last.op = "get_chapters" /\ last.plugin \in {"B", "C"} /\ last.in.page >= 1
         /\ ParsedAll(last)) =>
        LET full == FullList(last)
            skip == (last.in.page - 1) * 20
            n == Min(20, Max(0, Len(full) - skip))
        IN  /\ ~last.out.raised
            /\ Len(last.out.val) = n
            /\ \A i \in 1..n : last.out.val[i] = full[skip + i]

\* Plugin B returned page 2 of a list of more than 40 chapters
C5_Witness ==
    /\ last.op = "get_chapters"
    /\ last.plugin = "B"
    /\ last.in.page = 2
    /\ ParsedAll(last)
    /\ Len(FullList(last)) > 40
    /\ Len(last.out.val) = 20
    /\ last.out.val[1] = FullList(last)[21]

---------------------------------------------------------------------------
\* C6: descrambling undoes the inverse of its own tile mapping: after
\* scrambling an image with the inverse mapping and descrambling it, every
\* tile outside the final row and final column holds exactly its original
\* content, and both operations keep a tile of the final column (row) at
\* its own column (row) index.
C6_RoundTrip ==
    last.op = "descramble" =>
        LET w == last.in.width
            h == last.in.height
            off == last.in.offset
            xm == max_idx(w)
            ym == max_idx(h)
        IN  /\ ~last.out.raised
            /\ \A t \in Tiles(w, h) :
                  (t[1] < xm /\ t[2] < ym) => last.out.val[t] = {t}
            /\ \A t \in Tiles(w, h) :
                  /\ t[1] = xm => SrcTile(t, w, h, off)[1] = xm
                  /\ t[2] = ym => SrcTile(t, w, h, off)[2] = ym
            /\ \A s \in Tiles(w, h) : \A u \in last.in.scrambled[s] :
                  /\ u[1] = xm => s[1] = xm
                  /\ u[2] = ym => s[2] = ym

\* an image of several tiles each way, a negative offset, and a tile that
\* the scramble moved
C6_Witness ==
    /\ last.op = "descramble"
    /\ max_idx(last.in.width) >= 3
    /\ max_idx(last.in.height) >= 2
    /\ last.in.offset < 0
    /\ last.in.scrambled[<<0, 0>>] # {<<0, 0>>}
    /\ last.out.val[<<0, 0>>] = {<<0, 0>>}

---------------------------------------------------------------------------
\* the array assignment "var <name>=[...]" for the marker's variable is in
\* the text of a script
Declared(sc) == sc.decl /\ sc.dname = sc.mname /\ ~sc.spaced /\ sc.closed

\* C7: Plugin C's pictures_from_chapters returns [] when the marker is absent
\* or no array assignment for the marker's variable is in the text, and
\* otherwise exactly the string literals of that array, in source order.
C7_ArrayExtraction ==
    (last.op = "pictures_from_chapters" /\ last.plugin = "C") =>
        LET sc == last.in.script
        IN  /\ ~last.out.raised
            /\ (~sc.mark \/ ~Declared(sc)) => last.out.val = <<>>
            /\ (sc.mark /\ Declared(sc)) => last.out.val = sc.lits

---------------------------------------------------------------------------
\* a number field that is empty or absent
EmptyNumber(n) == n.k = "absent" \/ (n.k = "str" /\ n.s = <<>>)

EndsWithColon(label) == label # <<>> /\ label[Len(label)] = ":"

\* the token "Chapter" with nothing following it
BareChapter(label) == Strip(label) = <<"Chapter">>

\* the items iter_chapters of Plugin A yielded from page p
YieldsOf(p) == SelectSeq(a_log, LAMBDA ev : ev.e = "yield" /\ ev.page = p)

\* the pairs <<raw title, label>> of the chapter entries with an empty or
\* absent number that the state holds: of the last get_chapters or
\* iter_chapters call of Plugin A or B, and of Plugin A's lazy listing
EmptyNumberLabels ==
    (IF last.plugin = "A" /\ last.op = "get_chapters" /\ ~last.out.raised
     THEN LET l == last.in.body.list.v
          IN  {<<Fmt(DictGet(l[i].title, PyNone)), last.out.val[i].name>> :
                  i \in {j \in 1..Len(last.out.val) : EmptyNumber(l[j].number)}}
     ELSE {})
    \cup
    (IF last.plugin = "B" /\ last.op = "get_chapters" /\ last.in.page >= 1 /\ ParsedAll(last)
     THEN LET rows == WithLink(last.in.env.items)
              skip == (last.in.page - 1) * 20
          IN  {<<RawTitleOf(rows[skip + i]), last.out.val[i].name>> :
                  i \in {j \in 1..Len(last.out.val) : rows[skip + j].number = <<>>}}
     ELSE {})
    \cup
    (IF last.plugin = "B" /\ last.op = "iter_chapters"
     THEN LET rows == WithLink(last.in.env.items)
          IN  {<<RawTitleOf(rows[i]), last.out.val[i].name>> :
                  i \in {j \in 1..Len(last.out.val) : rows[j].number = <<>>}}
     ELSE {})
    \cup
    UNION {LET l == a_hist[p].chapters.v
               ys == YieldsOf(p - 1)
           IN  {<<Fmt(DictGet(l[i].title, PyNone)), ys[i].item.name>> :
                   i \in {j \in 1..Len(ys) : EmptyNumber(l[j].number)}} :
           p \in 1..Len(a_hist)}

\* C8 as stated: for every chapter entry whose number is empty or absent and
\* for every raw title, the label never ends with a bare colon and is never
\* the token "Chapter" with nothing following it.
C8_NoDegenerateLabel ==
    \A p \in EmptyNumberLabels : ~EndsWithColon(p[2]) /\ ~BareChapter(p[2])

\* C8 as amended: for every chapter entry whose number is empty or absent
\* and whose raw title neither ends with a colon nor is the bare word
\* "Chapter", the label never ends with a bare colon and is never the token
\* "Chapter" with nothing following it.
C8_NoDegenerateLabelAdded ==
    \A p \in EmptyNumberLabels :
        (~EndsWithColon(p[1]) /\ ~BareChapter(p[1])) =>
            (~EndsWithColon(p[2]) /\ ~BareChapter(p[2]))

\* Plugin B's get_chapters labels an unnumbered row whose title holds
\* "Chapter :" and the clean-up has acted
C8_Witness ==
    /\ last.plugin = "B"
    /\ last.op = "get_chapters"
    /\ <<(<<"Chapter", " ", ":", " ", "x">>), (<<"Chapter", " ", "x">>)>> \in EmptyNumberLabels

---------------------------------------------------------------------------
\* C9: in every plugin pictures_from_chapters never raises and returns []
\* whenever extraction fails: Plugin A without a response context, when the
\* derived API fetch fails or its body is malformed; Plugin B always;
\* Plugin C when the marker or the array assignment is not found.
C9_PicturesNeverRaise ==
    last.op = "pictures_from_chapters" =>
        /\ ~last.out.raised
        /\ last.plugin = "A" =>
              LET b == last.in.body
                  malformed ==
                      \/ b.k # "obj"
                      \/ b.rc \in {"null", "notobj"}
                      \/ b.list.k = "null"
                      \/ \E i \in 1..Len(b.list.v) : ~b.list.v[i].obj
              IN  (last.in.response.k = "none" \/ malformed) => last.out.val = <<>>
        /\ last.plugin = "B" => last.out.val = <<>>
        /\ last.plugin = "C" =>
              LET sc == last.in.script
                  nobracket == \A i \in 1..Len(sc.lits) : ~Contains(sc.lits[i], <<"]">>)
              IN  (~sc.mark \/ ~sc.decl \/ sc.dname # sc.mname \/ sc.spaced
                     \/ (~sc.closed /\ nobracket)) => last.out.val = <<>>

\* Plugin A was given a response context and the derived API fetch failed
C9_Witness ==
    /\ last.op = "pictures_from_chapters"
    /\ last.plugin = "A"
    /\ last.in.response.k = "str"
    /\ Contains(last.in.response.s, <<"/">>)
    /\ last.in.body.k = "transport"
    /\ last.out = Returned(<<>>)

---------------------------------------------------------------------------
\* the canonical origin of a plugin's site
BaseUrl(plugin) ==
    CASE plugin = "A" -> A_base_url
      [] plugin = "B" -> B_base_url
      [] plugin = "C" -> C_base_url

\* C10: in every plugin contains_url is a prefix test: it returns true only
\* for URLs that begin with the site's canonical origin.
C10_MembershipIsPrefix ==
    last.op = "contains_url" =>
        (last.out.val = TRUE => StartsWith(last.in.url, BaseUrl(last.plugin)))

---------------------------------------------------------------------------
\* the recently-updated body is well-formed JSON
WellFormedJson(body) == body.k \in {"nonobj", "obj"}

\* the recently-updated body is a JSON object whose "items" is missing or a
\* list of JSON objects
ItemsAreObjects(body) ==
    /\ body.k = "obj"
    /\ body.list.k \in {"absent", "list"}
    /\ \A i \in 1..Len(body.list.v) : body.list.v[i].obj

---------------------------------------------------------------------------
\* C12: Plugin B's get_chapters and iter_chapters produce no Items whenever
\* the status field of the AJAX envelope is not 200, even when the result
\* field carries parseable chapter markup.
C12_StatusShortCircuits ==
    (last.plugin = "B" /\ last.op \in {"get_chapters", "iter_chapters"}
         /\ last.in.env.k = "obj" /\ last.in.env.status # 200) =>
        last.out = Returned(<<>>)

---------------------------------------------------------------------------
\* the source index the rule gives for index idx of an axis whose last
\* index is max; -1 stands for a modulus taken with max = 0
ExpectedSrc(idx, max, offset) ==
    IF idx = max THEN idx
    ELSE IF max = 0 THEN 0 - 1
    ELSE LET r == (max - idx + offset) % max IN r

\* C13: for every image size with W, H >= 1 and every offset, each
\* destination tile of _descramble_image is copied from the tile whose index
\* on an axis is the tile's own when that is the axis's max index and
\* (max - idx + offset) mod max otherwise; no modulus is taken with max = 0,
\* the source index of a non-edge tile lies in 0..max-1, and the non-edge
\* mapping is a bijection on 0..max-1.
C13_TileMapping ==
    last.op = "descramble" =>
        LET w == last.in.width
            h == last.in.height
            off == last.in.offset
            xm == max_idx(w)
            ym == max_idx(h)
        IN  /\ piece_len(w) >= 1 /\ piece_len(h) >= 1
            /\ xm >= 0 /\ ym >= 0
            /\ \A t \in Tiles(w, h) :
                  LET ex == <<ExpectedSrc(t[1], xm, off), ExpectedSrc(t[2], ym, off)>>
                  IN  /\ ex[1] >= 0 /\ ex[2] >= 0
                      /\ SrcTile(t, w, h, off) = ex
                      /\ last.out.val[t] = last.in.scrambled[ex]
                      /\ t[1] < xm => ex[1] \in 0..(xm - 1)
                      /\ t[2] < ym => ex[2] \in 0..(ym - 1)
            /\ {SrcTile(<<i, ym>>, w, h, off)[1] : i \in 0..(xm - 1)} = 0..(xm - 1)
            /\ {SrcTile(<<xm, j>>, w, h, off)[2] : j \in 0..(ym - 1)} = 0..(ym - 1)
            /\ \A s, t \in Tiles(w, h) :
                  (s # t /\ s[1] < xm /\ t[1] < xm /\ s[2] < ym /\ t[2] < ym) =>
                      SrcTile(s, w, h, off) # SrcTile(t, w, h, off)

\* an image of one row of tiles and four columns, descrambled with a
\* negative offset, whose first tile came from another column
C13_Witness ==
    /\ last.op = "descramble"
    /\ max_idx(last.in.width) = 3
    /\ max_idx(last.in.height) = 0
    /\ last.in.offset < 0
    /\ SrcTile(<<0, 0>>, last.in.width, last.in.height, last.in.offset) = <<2, 0>>
    /\ last.out.val[<<0, 0>>] = last.in.scrambled[<<2, 0>>]
    /\ last.out.val[<<3, 0>>] = last.in.scrambled[<<3, 0>>]

---------------------------------------------------------------------------
\* the API pages requested by the current invocation of Plugin A's
\* iter_chapters, in the order of the requests
RequestedPages ==
    LET f == SelectSeq(a_log, LAMBDA ev : ev.e = "fetch")
    IN  [i \in 1..Len(f) |-> f[i].page]

\* the response to the request of API page p lets the iteration go on: it
\* has chapters and declares more than p + 1 pages
MayContinue(r, p) ==
    /\ ~HasNoChapters(r)
    /\ r.k = "obj"
    /\ r.pages.k = "int"
    /\ r.pages.n > p + 1

\* C14: every invocation of Plugin A's iter_chapters requests the API pages
\* 0, 1, 2, ... in this order starting from 0, yields all chapters of a
\* fetched page before it requests the next page, and requests nothing after
\* a page without chapters or a page p whose response declares pages <= p+1.
C14_PagesInOrder ==
    /\ Len(RequestedPages) = Len(a_hist)
    /\ \A k \in 1..Len(RequestedPages) : RequestedPages[k] = k - 1
    /\ a_log # <<>> => a_log[1].e = "fetch"
    /\ \A i \in 1..(Len(a_log) - 1) :
          /\ a_log[i].page <= a_log[i + 1].page
          /\ a_log[i].page < a_log[i + 1].page => a_log[i + 1].e = "fetch"
    /\ \A k \in 1..(Len(a_hist) - 1) :
          /\ MayContinue(a_hist[k], k - 1)
          /\ YieldsOf(k - 1) =
                 [i \in 1..Len(a_hist[k].chapters.v) |->
                     YieldEvent(k - 1, A_shape_chapter(LastSegment(a_url, "/"),
                                                       a_hist[k].chapters.v[i]))]
    /\ (a_pc = "loop" /\ a_hist # <<>>) =>
          /\ MayContinue(a_hist[Len(a_hist)], Len(a_hist) - 1)
          /\ a_page = Len(a_hist)
    /\ (a_pc = "loop" /\ a_hist = <<>>) => (a_page = 0 /\ a_log = <<>>)

\* an invocation that requested three pages, yielded the chapters of the
\* first two in between, and stopped at the page that declares no more pages
C14_Witness ==
    /\ a_pc = "done"
    /\ RequestedPages = <<0, 1, 2>>
    /\ Len(YieldsOf(0)) = 2
    /\ Len(YieldsOf(1)) = 1
    /\ Len(YieldsOf(2)) = 1
    /\ a_hist[3].pages = IntPages(3)

---------------------------------------------------------------------------
\* the Items of a sequence of yield events
ItemsOf(events) == [i \in 1..Len(events) |-> events[i].item]

\* C15: for Plugin A, for every page p >= 1 whose API page p-1 the lazy
\* iteration has fetched, get_chapters(card, p) on the same upstream response
\* returns exactly the Items that iter_chapters yielded from API page p-1,
\* with the same labels and URLs in the same order.
C15_SameShaping ==
    \A p \in 1..Len(a_hist) :
        a_hist[p].k # "transport" =>
            A_get_chapters(a_url, p, JBody(a_hist[p].k, a_hist[p].chapters))
                = Returned(ItemsOf(YieldsOf(p - 1)))

====
